---- MODULE Spec2Model ----
(***************************************************************************)
(* Model of pyEPR's ProjectInfo (src/pyEPR/project_info.py): the handle    *)
(* that binds an analysis session to a running Ansys desktop.              *)
(*                                                                         *)
(* Python's None is modelled twice: None for the name fields (strings) and *)
(* Unbound for the object handles (tuples), so that TLC never compares a   *)
(* string with a tuple.                                                    *)
(***************************************************************************)
EXTENDS Integers, Sequences, FiniteSets, TLC

VARIABLES
    \* ---- fields of the ProjectInfo object
    project_name, design_name, setup_name,
    app, desktop, project, design, setup,
    junctions,
    \* ---- state of the remote Ansys session (pyEPR.ansys)
    rsolution,      \* design name -> solution_type
    rsetups,        \* design name -> sequence of setups [name, kind]
    rvars,          \* [project |-> variable names, design |-> variable names]
    rgroups,        \* geometry group -> object names
    \* ---- the last call on the handle and what it produced
    op, arg, exc, cause, ret, msg, calls,
    nDisc           \* number of disconnect() calls that returned normally

pinfo  == <<project_name, design_name, setup_name, app, desktop, project, design, setup>>
remote == <<rsolution, rsetups, rvars, rgroups>>
vars   == <<project_name, design_name, setup_name, app, desktop, project, design,
            setup, junctions, rsolution, rsetups, rvars, rgroups,
            op, arg, exc, cause, ret, msg, calls, nDisc>>

----------------------------------------------------------------------------
\* Bounds of the model

MaxDisconnects == 2     \* disconnect() calls that return normally
MaxJunctions   == 2     \* entries of pinfo.junctions

----------------------------------------------------------------------------
\* Values

None    == "None"       \* Python None in a name field
Unbound == <<>>         \* Python None in a handle field / as a return value

AppH            == <<"app">>
DesktopH        == <<"desktop">>
ProjectH(p)     == <<"project", p>>
DesignH(d)      == <<"design", d>>
SetupH(d, s)    == <<"setup", d, s.name, s.kind>>

\* the .name field of the remote objects
HName(h) == IF h[1] = "setup" THEN h[3] ELSE h[2]
\* the class of a setup handle: "em" HfssEMSetup, "dm" HfssDMSetup, ...
HKind(h) == h[4]

RetBool(b) == <<"bool", b>>

\* the remote project: one open project with two designs, the first active
rProjects      == {"P"}
rActiveProject == "P"
rDesigns       == {"D1", "D2"}
rActiveDesign  == "D1"
SolutionTypes  == {"Eigenmode", "DrivenModal", "Q3D Extractor"}
DefaultSetup   == "Setup"

KindOf(sol) == IF sol = "Eigenmode" THEN "em"
               ELSE IF sol = "DrivenModal" THEN "dm" ELSE "q3d"

\* what a caller may pass to the constructor and to get_setup
ProjectArgs == {None, "P", "Px"}
DesignArgs  == {None, "D1", "D2", "Dx"}
SetupArgs   == {None, "S1", "S2", "Sx"}
NameArgs    == {None, "", "S1", "S2", "Sx"}

Range(s) == {s[i] : i \in DOMAIN s}

Min(a, b) == IF a < b THEN a ELSE b

----------------------------------------------------------------------------
\* The remote session (pyEPR.ansys), as the handle sees it

\* ansys.load_ansys_project(project_name, project_path): attach to the named
\* project, or to the active one when no name is given
load_ansys_project(pn) ==
    IF pn = None \/ pn \in rProjects
    THEN [exc |-> "none", app |-> AppH, desktop |-> DesktopH,
          project |-> ProjectH(IF pn = None THEN rActiveProject ELSE pn)]
    ELSE [exc |-> "LoadError", app |-> Unbound, desktop |-> Unbound,
          project |-> Unbound]

\* project.get_active_design()
project_get_active_design == DesignH(rActiveDesign)

\* project.get_design(name): fails when the name does not resolve
project_get_design(dn) ==
    IF dn \in rDesigns THEN [exc |-> "none", design |-> DesignH(dn)]
    ELSE [exc |-> "LookupError", design |-> Unbound]

\* design.get_setup_names(): the names in the remote enumeration order
design_get_setup_names(d, rs) == [i \in DOMAIN rs[d] |-> rs[d][i].name]

\* design.create_em_setup() / design.create_dm_setup(): the design gains a setup
design_create_setup(d, kind, rs) ==
    [rs EXCEPT ![d] = Append(@, [name |-> DefaultSetup, kind |-> kind])]

\* design.get_setup(name): the setup of that name, or nothing
design_get_setup(d, n, rs) ==
    IF \E s \in Range(rs[d]) : s.name = n
    THEN SetupH(d, CHOOSE s \in Range(rs[d]) : s.name = n)
    ELSE Unbound

\* a disconnect that lets go of the desktop first
ReleaseOrder_desktop_first ==
    <<<<"desktop.release">>, <<"project.release">>, <<"app.release">>,
      <<"ansys.release">>>>

\* the order of the release calls of a disconnect
ReleaseOrder ==
    <<<<"project.release">>, <<"desktop.release">>, <<"app.release">>,
      <<"ansys.release">>>>

----------------------------------------------------------------------------
\* ProjectInfo.get_setup(name), on a handle with the given design, setup and
\* setup_name, against the remote setups rs

\* the test that sends get_setup down its do-nothing branch
no_name_falsy(name) == name \in {None, ""}

no_name(name) == name = None

\* the name get_setup hands to design.get_setup
lookup_name_passed(cur_name, name) == name

lookup_name(cur_name, name) == cur_name

get_setup(dsn, cur_setup, cur_name, name, rs) ==
    IF no_name(name)
    THEN [exc |-> "none", setup |-> cur_setup, setup_name |-> cur_name,
          ret |-> Unbound, calls |-> <<>>]
    ELSE IF dsn = Unbound
    THEN \* self.design is None: the attribute access fails
         [exc |-> "AttributeError", setup |-> cur_setup, setup_name |-> cur_name,
          ret |-> Unbound, calls |-> <<>>]
    ELSE LET n == lookup_name(cur_name, name)
             s == design_get_setup(HName(dsn), n, rs) IN
         IF s = Unbound
         THEN \* self.setup is assigned None, then self.setup.name fails
              [exc |-> "AttributeError", setup |-> Unbound,
               setup_name |-> cur_name, ret |-> Unbound,
               calls |-> <<<<"design.get_setup", n>>>>]
         ELSE [exc |-> "none", setup |-> s, setup_name |-> HName(s),
               ret |-> s, calls |-> <<<<"design.get_setup", n>>>>]

\* a check_connected that forgets the setup
check_connected_no_setup(a, dk, p, dsn, s) ==
    (dsn # Unbound) /\ (p # Unbound) /\ (dk # Unbound) /\ (a # Unbound)

\* ProjectInfo.check_connected()
check_connected(a, dk, p, dsn, s) ==
    (s # Unbound) /\ (dsn # Unbound) /\ (p # Unbound) /\ (dk # Unbound)
        /\ (a # Unbound)

\* a connect that falls back to the active design when the name is unknown
connect_design_fallback(dn, cur_design) ==
    IF dn = None \/ project_get_design(dn).exc # "none"
    THEN [exc |-> "none", cause |-> "none",
          design |-> project_get_active_design,
          design_name |-> HName(project_get_active_design),
          calls |-> <<<<"project.get_active_design">>>>]
    ELSE [exc |-> "none", cause |-> "none",
          design |-> project_get_design(dn).design,
          design_name |-> dn, calls |-> <<<<"project.get_design", dn>>>>]

\* connect(), the design part
connect_design(dn, cur_design) ==
    IF dn = None
    THEN [exc |-> "none", cause |-> "none",
          design |-> project_get_active_design,
          design_name |-> HName(project_get_active_design),
          calls |-> <<<<"project.get_active_design">>>>]
    ELSE LET g == project_get_design(dn) IN
         IF g.exc = "none"
         THEN [exc |-> "none", cause |-> "none", design |-> g.design,
               design_name |-> dn, calls |-> <<<<"project.get_design", dn>>>>]
         ELSE [exc |-> "DesignNameError", cause |-> g.exc,
               design |-> cur_design, design_name |-> dn,
               calls |-> <<<<"project.get_design", dn>>>>]

\* the default setup connect() creates on a design without setups
default_setup_swapped(solution_type) ==
    IF solution_type = "Eigenmode" THEN "dm"
    ELSE IF solution_type = "DrivenModal" THEN "em" ELSE "none"

default_setup_else(solution_type) ==
    IF solution_type = "Eigenmode" THEN "em" ELSE "dm"

default_setup(solution_type) ==
    IF solution_type = "Eigenmode" THEN "em"
    ELSE IF solution_type = "DrivenModal" THEN "dm" ELSE "none"

\* connect(), the setup part
connect_setup(dsn, cur_setup, cur_name, rs, sol) ==
    LET d     == HName(dsn)
        names == design_get_setup_names(d, rs)
        kind  == IF Len(names) = 0 THEN default_setup(sol[d]) ELSE "none"
        rs1   == IF kind # "none" THEN design_create_setup(d, kind, rs) ELSE rs
        made  == IF kind # "none"
                 THEN <<<<"design.create_" \o kind \o "_setup">>>> ELSE <<>>
        sn1   == IF Len(names) = 0
                 THEN (IF kind # "none" THEN DefaultSetup ELSE cur_name)
                 ELSE names[1]
        g     == get_setup(dsn, cur_setup, sn1, sn1, rs1)
    IN  [exc |-> IF g.exc = "none" THEN "none" ELSE "SetupNameError",
         cause |-> g.exc, setup |-> g.setup, setup_name |-> g.setup_name,
         rsetups |-> rs1,
         calls |-> <<<<"design.get_setup_names">>>> \o made \o g.calls]

\* ProjectInfo.get_all_variables_names(): project names, then design names
get_all_variables_names(rv) == rv.project \o rv.design

GroupNames == <<"Non Model", "Solids", "Unclassified", "Sheets", "Lines">>

RECURSIVE objects_from(_, _)
objects_from(i, rg) ==
    IF i > Len(GroupNames) THEN <<>>
    ELSE rg[GroupNames[i]] \o objects_from(i + 1, rg)

\* a listing that leaves out the last group
get_all_object_names_no_lines(rg) ==
    rg["Non Model"] \o rg["Solids"] \o rg["Unclassified"] \o rg["Sheets"]

\* ProjectInfo.get_all_object_names(): the five group listings, concatenated
get_all_object_names(rg) == objects_from(1, rg)

In(x, s) == \E i \in DOMAIN s : s[i] = x

\* the loop of validate_junction_info from item i on: <<>> when every
\* assertion passes, else what the failing assertion's message names
RECURSIVE validate_from(_, _, _, _)
validate_from(items, i, all_variables_names, all_object_names) ==
    IF i > Len(items) THEN <<>>
    ELSE LET jj == items[i] IN
         IF ~ In(jj.Lj_variable, all_variables_names)
         THEN <<jj.name, "Lj_variable", jj.Lj_variable>>
         ELSE IF ~ In(jj.rect, all_object_names)
         THEN <<jj.name, "rect", jj.rect>>
         ELSE IF ~ In(jj.line, all_object_names)
         THEN <<jj.name, "line", jj.line>>
         ELSE validate_from(items, i + 1, all_variables_names, all_object_names)

\* ProjectInfo.validate_junction_info()
validate_junction_info(items, p, dsn, rv, rg) ==
    IF p = Unbound \/ dsn = Unbound
    THEN [exc |-> "AttributeError", msg |-> <<>>]
    ELSE LET m == validate_from(items, 1, get_all_variables_names(rv),
                                get_all_object_names(rg)) IN
         [exc |-> IF m = <<>> THEN "none" ELSE "AssertionError", msg |-> m]


----------------------------------------------------------------------------
\* The operations on the handle

Connect ==
    LET l == load_ansys_project(project_name) IN
    /\ op' = "connect" /\ arg' = None /\ msg' = <<>>
    /\ UNCHANGED <<junctions, rsolution, rvars, rgroups, nDisc>>
    /\ IF l.exc # "none"
       THEN /\ exc' = l.exc /\ cause' = "none" /\ ret' = Unbound
            /\ calls' = <<<<"ansys.load_ansys_project", project_name>>>>
            /\ UNCHANGED <<pinfo, rsetups>>
       ELSE LET ds == connect_design(design_name, design) IN
            /\ app' = l.app /\ desktop' = l.desktop /\ project' = l.project
            /\ project_name' = HName(l.project)
            /\ design' = ds.design
            /\ design_name' = ds.design_name
            /\ IF ds.exc # "none"
               THEN /\ exc' = ds.exc /\ cause' = ds.cause /\ ret' = Unbound
                    /\ calls' = <<<<"ansys.load_ansys_project", project_name>>>>
                                    \o ds.calls
                    /\ UNCHANGED <<setup, setup_name, rsetups>>
               ELSE LET st == connect_setup(ds.design, setup, setup_name,
                                            rsetups, rsolution) IN
                    /\ setup' = st.setup /\ setup_name' = st.setup_name
                    /\ rsetups' = st.rsetups
                    /\ exc' = st.exc
                    /\ cause' = IF st.exc = "none" THEN "none" ELSE st.cause
                    /\ ret' = IF st.exc = "none" THEN <<"self">> ELSE Unbound
                    /\ calls' = <<<<"ansys.load_ansys_project", project_name>>>>
                                    \o ds.calls \o st.calls

GetSetup ==
    \E name \in NameArgs :
        LET g == get_setup(design, setup, setup_name, name, rsetups) IN
        /\ op' = "get_setup" /\ arg' = name /\ msg' = <<>>
        /\ setup' = g.setup /\ setup_name' = g.setup_name
        /\ exc' = g.exc /\ cause' = "none" /\ ret' = g.ret /\ calls' = g.calls
        /\ UNCHANGED <<project_name, design_name, app, desktop, project, design,
                       junctions, remote, nDisc>>

CheckConnected ==
    /\ op' = "check_connected" /\ arg' = None /\ msg' = <<>>
    /\ ret' = RetBool(check_connected(app, desktop, project, design, setup))
    /\ exc' = "none" /\ cause' = "none" /\ calls' = <<>>
    /\ UNCHANGED <<pinfo, junctions, remote, nDisc>>

\* a disconnect that drops its handles once they are released
Disconnect_clearing ==
    /\ nDisc < MaxDisconnects
    /\ op' = "disconnect" /\ arg' = None /\ msg' = <<>> /\ ret' = Unbound
    /\ cause' = "none"
    /\ UNCHANGED <<project_name, design_name, setup_name, junctions, remote>>
    /\ IF ~ check_connected(app, desktop, project, design, setup)
       THEN /\ exc' = "AssertionError" /\ calls' = <<>> /\ nDisc' = nDisc
            /\ UNCHANGED <<app, desktop, project, design, setup>>
       ELSE /\ calls' = ReleaseOrder /\ exc' = "none" /\ nDisc' = nDisc + 1
            /\ app' = Unbound /\ desktop' = Unbound /\ project' = Unbound
            /\ design' = Unbound /\ setup' = Unbound

Disconnect ==
    /\ nDisc < MaxDisconnects
    /\ op' = "disconnect" /\ arg' = None /\ msg' = <<>> /\ ret' = Unbound
    /\ cause' = "none"
    /\ UNCHANGED <<pinfo, junctions, remote>>
    /\ IF ~ check_connected(app, desktop, project, design, setup)
       THEN exc' = "AssertionError" /\ calls' = <<>> /\ nDisc' = nDisc
       ELSE \E k \in 0..Len(ReleaseOrder) :   \* k releases go through
            /\ calls' = SubSeq(ReleaseOrder, 1, Min(k + 1, Len(ReleaseOrder)))
            /\ exc' = IF k = Len(ReleaseOrder) THEN "none" ELSE "ReleaseError"
            /\ nDisc' = IF k = Len(ReleaseOrder) THEN nDisc + 1 ELSE nDisc

----------------------------------------------------------------------------
\* The session: a handle built with do_connect = False, then any calls

SetupLists == {<<>>, <<"S1">>, <<"S1", "S2">>, <<"S2", "S1">>}

DefaultVars   == [project |-> <<>>, design |-> <<"Lj_1">>]
DefaultGroups == [g \in Range(GroupNames) |->
                    IF g = "Sheets" THEN <<"jj_rect_1">>
                    ELSE IF g = "Lines" THEN <<"jj_line_1">> ELSE <<>>]

Init ==
    /\ project_name \in ProjectArgs
    /\ design_name \in DesignArgs
    /\ setup_name \in SetupArgs
    /\ app = Unbound /\ desktop = Unbound /\ project = Unbound
    /\ design = Unbound /\ setup = Unbound
    /\ junctions = <<>>
    /\ rsolution \in [rDesigns -> SolutionTypes]
    /\ \E l \in [rDesigns -> SetupLists] :
          rsetups = [d \in rDesigns |->
                        [i \in DOMAIN l[d] |->
                            [name |-> l[d][i], kind |-> KindOf(rsolution[d])]]]
    /\ rvars = DefaultVars /\ rgroups = DefaultGroups
    /\ op = "init" /\ arg = None /\ exc = "none" /\ cause = "none"
    /\ ret = Unbound /\ msg = <<>> /\ calls = <<>> /\ nDisc = 0

Next == Connect \/ GetSetup \/ CheckConnected \/ Disconnect

Spec == Init /\ [][Next]_vars

----------------------------------------------------------------------------
\* Junction validation: a connected handle whose junctions the caller fills
\* in, pinfo.junctions[name] = {...}, and validates

JunctionNames == {"j1", "j2", "j3"}
LjArgs        == {"Lj_1", "Lj_9"}
RectArgs      == {"jj_rect_1", "obj_9"}
LineArgs      == {"jj_line_1", "obj_9"}

VarConfigs ==
    { [project |-> <<>>, design |-> <<"Lj_1">>],
      [project |-> <<"Lj_1">>, design |-> <<"Lj_2">>],
      [project |-> <<>>, design |-> <<>>] }

GroupConfigs ==
    { DefaultGroups,
      [g \in Range(GroupNames) |->
          IF g \in {"Solids", "Sheets"} THEN <<"jj_rect_1">> ELSE <<>>],
      [g \in Range(GroupNames) |->
          IF g = "Non Model" THEN <<"jj_line_1">>
          ELSE IF g = "Unclassified" THEN <<"jj_rect_1">> ELSE <<>>] }

\* pinfo.junctions[jjnm] = record: a known key keeps its place
SetJunction ==
    \E jjnm \in JunctionNames, lj \in LjArgs, r \in RectArgs, l \in LineArgs :
        LET jj == [name |-> jjnm, Lj_variable |-> lj, rect |-> r, line |-> l] IN
        /\ \/ \E i \in DOMAIN junctions :
                /\ junctions[i].name = jjnm
                /\ junctions' = [junctions EXCEPT ![i] = jj]
           \/ /\ \A i \in DOMAIN junctions : junctions[i].name # jjnm
              /\ Len(junctions) < MaxJunctions
              /\ junctions' = Append(junctions, jj)
        /\ op' = "set_junction" /\ arg' = jjnm /\ exc' = "none"
        /\ cause' = "none" /\ ret' = Unbound /\ msg' = <<>> /\ calls' = <<>>
        /\ UNCHANGED <<pinfo, remote, nDisc>>

ValidateJunctionInfo ==
    LET v == validate_junction_info(junctions, project, design, rvars, rgroups) IN
    /\ op' = "validate_junction_info" /\ arg' = None
    /\ exc' = v.exc /\ msg' = v.msg /\ cause' = "none" /\ ret' = Unbound
    /\ calls' = <<>>
    /\ UNCHANGED <<pinfo, junctions, remote, nDisc>>

InitValidate ==
    /\ project_name = "P" /\ design_name = "D1" /\ setup_name = "S1"
    /\ app = AppH /\ desktop = DesktopH /\ project = ProjectH("P")
    /\ design = DesignH("D1")
    /\ setup = SetupH("D1", [name |-> "S1", kind |-> "em"])
    /\ junctions = <<>>
    /\ rsolution = [d \in rDesigns |-> "Eigenmode"]
    /\ rsetups = [d \in rDesigns |->
                    IF d = "D1" THEN <<[name |-> "S1", kind |-> "em"]>> ELSE <<>>]
    /\ rvars \in VarConfigs /\ rgroups \in GroupConfigs
    /\ op = "connect" /\ arg = None /\ exc = "none" /\ cause = "none"
    /\ ret = <<"self">> /\ msg = <<>> /\ nDisc = 0
    /\ calls = << <<"ansys.load_ansys_project", "P">>,
                  <<"project.get_design", "D1">>,
                  <<"design.get_setup_names">>,
                  <<"design.get_setup", "S1">> >>

NextValidate == SetJunction \/ ValidateJunctionInfo

SpecValidate == InitValidate /\ [][NextValidate]_vars

----------------------------------------------------------------------------
\* Properties

\* C1: validate_junction_info on a connected handle succeeds iff every
\* junction's Lj_variable is among the project and design variable names and
\* its rect and line are among the objects of the five geometry groups;
\* otherwise it fails with an assertion that names the first violation in
\* insertion order of the junctions and field order Lj_variable, rect, line:
\* that junction, that field and that value.
C1_ValidateFailsFast ==
    LET fields   == <<"Lj_variable", "rect", "line">>
        allVars  == Range(rvars.project) \cup Range(rvars.design)
        allObjs  == UNION {Range(rgroups[g]) :
                       g \in {"Non Model", "Solids", "Unclassified", "Sheets", "Lines"}}
        known(k) == IF k = 1 THEN allVars ELSE allObjs
        bad      == {v \in (DOMAIN junctions) \X (1..3) :
                       junctions[v[1]][fields[v[2]]] \notin known(v[2])}
        before(v, w) == v[1] < w[1] \/ (v[1] = w[1] /\ v[2] <= w[2])
    IN  op = "validate_junction_info" =>
          /\ (exc = "none") <=> (bad = {})
          /\ exc = "none" => msg = <<>>
          /\ exc # "none" =>
               /\ exc = "AssertionError"
               /\ \E v \in bad :
                    /\ \A w \in bad : before(v, w)
                    /\ msg = <<junctions[v[1]].name, fields[v[2]],
                               junctions[v[1]][fields[v[2]]]>>

\* a validation that passed the first junction and stopped at the rect of the
\* second one, whose line is in violation as well
C1_Witness ==
    /\ op = "validate_junction_info" /\ exc = "AssertionError"
    /\ Len(junctions) = 2
    /\ msg = <<junctions[2].name, "rect", junctions[2].rect>>
    /\ ~ In(junctions[2].line, get_all_object_names(rgroups))

\* C2: connect() with a design_name the remote project does not resolve
\* (the project itself loads) ends in the design-name error, not in success
\* and not in the setup-name error; no setup is enumerated, created or
\* looked up, design and setup stay unbound, and the lookup failure is kept
\* as the cause of the error raised.
C2_UnknownDesignName ==
    [][ ( /\ op' = "connect"
          /\ project_name \in {None} \cup rProjects
          /\ design_name \notin {None} \cup rDesigns )
        => ( /\ exc' = "DesignNameError"
             /\ cause' = "LookupError"
             /\ \A i \in DOMAIN calls' :
                   calls'[i][1] \notin {"design.get_setup_names", "design.get_setup",
                                        "design.create_em_setup",
                                        "design.create_dm_setup"}
             /\ rsetups' = rsetups
             /\ design' = Unbound /\ setup' = Unbound
             /\ design = Unbound /\ setup = Unbound ) ]_vars

C2_Witness ==
    /\ op = "connect" /\ exc = "DesignNameError" /\ design_name = "Dx"
    /\ project # Unbound /\ design = Unbound
    /\ calls[Len(calls)] = <<"project.get_design", "Dx">>

\* C3: connect() that resolves a design without setups and with solution
\* type "Eigenmode" creates exactly one setup, of the eigenmode kind and
\* never a driven-modal one, records its name as setup_name and binds
\* self.setup to it.
C3_EigenmodeDefaultSetup ==
    [][ LET d == IF design_name = None THEN rActiveDesign ELSE design_name IN
        ( /\ op' = "connect"
          /\ project_name \in {None} \cup rProjects
          /\ d \in rDesigns
          /\ rsetups[d] = <<>>
          /\ rsolution[d] = "Eigenmode" )
        => ( /\ exc' = "none"
             /\ Cardinality({i \in DOMAIN calls' :
                   calls'[i][1] \in {"design.create_em_setup",
                                     "design.create_dm_setup"}}) = 1
             /\ \E i \in DOMAIN calls' : calls'[i][1] = "design.create_em_setup"
             /\ Len(rsetups'[d]) = 1
             /\ rsetups'[d][1].kind = "em"
             /\ \A e \in rDesigns \ {d} : rsetups'[e] = rsetups[e]
             /\ setup_name' = rsetups'[d][1].name
             /\ setup' = <<"setup", d, rsetups'[d][1].name, "em">> ) ]_vars

C3_Witness ==
    /\ op = "connect" /\ exc = "none"
    /\ \E i \in DOMAIN calls : calls[i] = <<"design.create_em_setup">>
    /\ setup # Unbound /\ HKind(setup) = "em" /\ setup_name = HName(setup)
    /\ design = DesignH("D2")

\* C4: in every reachable state check_connected() returns true iff app,
\* desktop, project, design and setup are all bound, false as soon as one of
\* them is unset, and the call changes no field of the handle and nothing
\* of the remote session.
C4_CheckConnected ==
    [][ op' = "check_connected" =>
          /\ ret' = RetBool({h \in {app, desktop, project, design, setup} :
                                h = Unbound} = {})
          /\ exc' = "none"
          /\ calls' = <<>>
          /\ UNCHANGED <<pinfo, junctions, remote>> ]_vars

\* check_connected() answering false with the setup alone unset
C4_Witness ==
    /\ op = "check_connected" /\ ret = RetBool(FALSE)
    /\ app # Unbound /\ desktop # Unbound /\ project # Unbound
    /\ design # Unbound /\ setup = Unbound

\* C5: disconnect() releases only when check_connected() holds at the call:
\* when it does not, the call fails with an assertion error and no release
\* is issued; when it does, the releases go out in the order project,
\* desktop, app, process-wide, and the release that fails is the last one
\* issued.
C5_DisconnectOrder ==
    [][ op' = "disconnect" =>
          LET order == << <<"project.release">>, <<"desktop.release">>,
                          <<"app.release">>, <<"ansys.release">> >>
              bound == /\ app # Unbound /\ desktop # Unbound /\ project # Unbound
                       /\ design # Unbound /\ setup # Unbound
          IN  IF ~ bound
              THEN exc' = "AssertionError" /\ calls' = <<>>
              ELSE /\ exc' \in {"none", "ReleaseError"}
                   /\ Len(calls') \in 1..4
                   /\ calls' = SubSeq(order, 1, Len(calls'))
                   /\ exc' = "none" => calls' = order ]_vars

\* a disconnect whose desktop release failed: the application is not released
C5_Witness ==
    /\ op = "disconnect" /\ exc = "ReleaseError"
    /\ calls = << <<"project.release">>, <<"desktop.release">> >>

\* C6: a successful connect() of a handle whose setup_name names a setup of
\* the resolved design binds self.setup to the setup of that name and leaves
\* setup_name as the caller gave it.
C6_CallerSetupNameKept ==
    [][ LET d == IF design_name = None THEN rActiveDesign ELSE design_name IN
        ( /\ op' = "connect" /\ exc' = "none"
          /\ d \in rDesigns
          /\ setup_name # None
          /\ \E i \in DOMAIN rsetups[d] : rsetups[d][i].name = setup_name )
        => ( /\ setup_name' = setup_name
             /\ setup' # Unbound
             /\ HName(setup') = setup_name ) ]_vars

\* C7, as stated: connect() that resolves a design without setups whose
\* solution type is neither "Eigenmode" nor "DrivenModal" returns normally
\* whatever setup_name was, creates no setup, keeps setup_name and leaves
\* self.setup unbound.
C7_OtherSolutionTypeReturns ==
    [][ LET d == IF design_name = None THEN rActiveDesign ELSE design_name IN
        ( /\ op' = "connect"
          /\ project_name \in {None} \cup rProjects
          /\ d \in rDesigns
          /\ rsetups[d] = <<>>
          /\ rsolution[d] \notin {"Eigenmode", "DrivenModal"} )
        => ( /\ exc' = "none"
             /\ rsetups' = rsetups
             /\ setup_name' = setup_name
             /\ setup' = Unbound
             /\ {h \in {app', desktop', project', design', setup'} :
                    h = Unbound} # {} ) ]_vars

\* C7, amended: connect() that resolves a design without setups whose
\* solution type is neither "Eigenmode" nor "DrivenModal" creates no setup,
\* keeps setup_name and leaves self.setup unbound, so that check_connected()
\* is false afterwards; it returns normally only if setup_name was unset,
\* and ends in the setup-name error if the caller had given a setup_name.
C7_OtherSolutionTypeNoSetup ==
    [][ LET d == IF design_name = None THEN rActiveDesign ELSE design_name IN
        ( /\ op' = "connect"
          /\ project_name \in {None} \cup rProjects
          /\ d \in rDesigns
          /\ rsetups[d] = <<>>
          /\ rsolution[d] \notin {"Eigenmode", "DrivenModal"} )
        => ( /\ rsetups' = rsetups
             /\ \A i \in DOMAIN calls' :
                   calls'[i][1] \notin {"design.create_em_setup",
                                        "design.create_dm_setup"}
             /\ setup_name' = setup_name
             /\ setup' = Unbound
             /\ {h \in {app', desktop', project', design', setup'} :
                    h = Unbound} # {}
             /\ (exc' = "none") <=> (setup_name = None)
             /\ setup_name # None => exc' = "SetupNameError" ) ]_vars

\* a connect() that returned normally and left the setup unbound
C7_Witness ==
    /\ op = "connect" /\ exc = "none" /\ setup = Unbound
    /\ design # Unbound /\ setup_name = None
    /\ rsetups[HName(design)] = <<>>
    /\ rsolution[HName(design)] = "Q3D Extractor"

\* C8, as stated: get_setup(name) with name None or the empty string returns
\* nothing, makes no remote call and leaves self.setup and self.setup_name
\* unchanged.
C8_FalsyNameIsNoOp ==
    [][ (op' = "get_setup" /\ arg' \in {None, ""})
        => ( /\ exc' = "none" /\ ret' = Unbound /\ calls' = <<>>
             /\ UNCHANGED <<setup, setup_name>> ) ]_vars

\* C8, amended: get_setup(None) returns nothing, makes no remote call and
\* leaves self.setup and self.setup_name unchanged; the empty string is not
\* taken for an absent name: on a handle with a design it goes to the remote
\* lookup like every other name.
C8_NoneNameIsNoOp ==
    [][ /\ (op' = "get_setup" /\ arg' = None)
           => ( /\ exc' = "none" /\ ret' = Unbound /\ calls' = <<>>
                /\ UNCHANGED <<setup, setup_name>> )
        /\ (op' = "get_setup" /\ arg' = "" /\ design # Unbound)
           => ( /\ Len(calls') = 1
                /\ calls'[1][1] = "design.get_setup" ) ]_vars

\* get_setup(None) on a connected handle
C8_Witness ==
    /\ op = "get_setup" /\ arg = None /\ exc = "none" /\ calls = <<>>
    /\ setup # Unbound /\ ret = Unbound

C10_DisconnectKeepsHandles ==
    [][ op' = "disconnect" =>
          /\ UNCHANGED pinfo
          /\ exc' = "none" =>
               /\ app' # Unbound /\ desktop' # Unbound /\ project' # Unbound
               /\ design' # Unbound /\ setup' # Unbound
               /\ Len(calls') = 4
          /\ (op = "disconnect" /\ exc = "none") =>
               /\ exc' # "AssertionError"
               /\ Len(calls') >= 1 ]_vars

\* a second disconnect that returned normally
C10_Witness ==
    /\ op = "disconnect" /\ exc = "none" /\ nDisc = 2
    /\ Len(calls) = 4
    /\ check_connected(app, desktop, project, design, setup)

====
